---------------------------- MODULE Spec2Model ----------------------------
(***************************************************************************)
(* Penalty matrices of a linear differential operator over a function      *)
(* basis: skfda/misc/regularization/_linear_diff_op_regularization.py.     *)
(*                                                                         *)
(* Numbers are rationals <<numerator, denominator>> in lowest terms.  The  *)
(* variable prec is the precision of the arithmetic the program runs on:   *)
(* 0 is arithmetic over the reals (every result exact), p > 0 rounds every *)
(* result to the nearest number with a p-bit significand, ties to even, as *)
(* IEEE-754 binary floating point does (binary64 has p = 53).              *)
(***************************************************************************)
EXTENDS Integers, Sequences, FiniteSets, TLC

VARIABLES
    basis,            \* the basis object handed to penalty_matrix
    weights,          \* what linear_diff_op.constant_weights() answers
    prec,             \* precision of the arithmetic (0: exact)
    pc,               \* position inside penalty_matrix
    optimized,        \* what penalty_matrix_optimized returned
    penalty_matrix,   \* the local penalty_matrix of the B-spline loop
    interval,         \* the B-spline loop's interval counter
    numerical_called, \* whether penalty_matrix_numerical ran
    result            \* what penalty_matrix returned

vars == <<basis, weights, prec, pc, optimized, penalty_matrix, interval,
          numerical_called, result>>

-----------------------------------------------------------------------------
(* Bounds of the model *)

MaxMonomial == 3
MaxFourier == 5
MaxLen == 4
MantBits == 3

-----------------------------------------------------------------------------
(* Rational arithmetic *)

Abs(x) == IF x < 0 THEN -x ELSE x

RECURSIVE GCD(_, _)
GCD(a, b) == IF b = 0 THEN a ELSE GCD(b, a % b)

Norm(n, d) ==
    LET g == GCD(Abs(n), Abs(d))
        s == IF d < 0 THEN -1 ELSE 1
    IN  <<s * (n \div g), s * (d \div g)>>

Q(n) == <<n, 1>>
Zero == Q(0)
One == Q(1)

QNeg(x) == <<-x[1], x[2]>>

QAdd(x, y) ==
    LET g == GCD(x[2], y[2])
    IN  Norm(x[1] * (y[2] \div g) + y[1] * (x[2] \div g), x[2] * (y[2] \div g))

QSub(x, y) == QAdd(x, QNeg(y))

QMul(x, y) ==
    LET g1 == GCD(Abs(x[1]), y[2])
        g2 == GCD(Abs(y[1]), x[2])
    IN  IF x[1] = 0 \/ y[1] = 0 THEN Zero
        ELSE <<(x[1] \div g1) * (y[1] \div g2), (x[2] \div g2) * (y[2] \div g1)>>

QDiv(x, y) == QMul(x, Norm(y[2], y[1]))

QLess(x, y) == x[1] * y[2] < y[1] * x[2]

RECURSIVE QPow(_, _)
QPow(x, e) == IF e = 0 THEN One ELSE QMul(x, QPow(x, e - 1))

RECURSIVE Pow2(_)
Pow2(e) == IF e = 0 THEN 1 ELSE 2 * Pow2(e - 1)

(* a/d (a, d > 0) rounded to the nearest integer, ties to the even one *)
RoundHalfEven(a, d) ==
    LET q == a \div d
        r == a % d
    IN  IF 2 * r < d THEN q
        ELSE IF 2 * r > d THEN q + 1
        ELSE IF q % 2 = 0 THEN q ELSE q + 1

(* a/d (a, d > 0) rounded to a p-bit significand *)
RECURSIVE FlPos(_, _, _)
FlPos(a, d, p) ==
    IF a >= d * Pow2(p) THEN QMul(Q(2), FlPos(a, 2 * d, p))
    ELSE IF a < d * Pow2(p - 1) THEN QMul(<<1, 2>>, FlPos(2 * a, d, p))
    ELSE Q(RoundHalfEven(a, d))

Fl(x, p) ==
    IF x[1] = 0 THEN Zero
    ELSE IF x[1] < 0 THEN QNeg(FlPos(-x[1], x[2], p))
    ELSE FlPos(x[1], x[2], p)

(* the arithmetic of the program: each operation's result is rounded *)
Round(x) == IF prec = 0 THEN x ELSE Fl(x, prec)
Add(x, y) == Round(QAdd(x, y))
Sub(x, y) == Round(QSub(x, y))
Mul(x, y) == Round(QMul(x, y))
Div(x, y) == Round(QDiv(x, y))

-----------------------------------------------------------------------------
(* Arrays: a vector is a sequence, a matrix a sequence of rows.  The source *)
(* indexes from 0; At and Set take the source's indices.                    *)

(* a sequence given elementwise, evaluated once *)
V(f) == f \o <<>>

Uninit == <<0, 0>>   \* an entry of np.empty that was never written

Full(r, c, v) == V([i \in 1..r |-> V([j \in 1..c |-> v])])
Zeros(r, c) == Full(r, c, Zero)
Empty(r, c) == Full(r, c, Uninit)

Rows(M) == Len(M)
Cols(M) == IF Len(M) = 0 THEN 0 ELSE Len(M[1])
Shape(M) == <<Rows(M), Cols(M)>>

At(M, i, j) == M[i + 1][j + 1]
Set(M, i, j, v) == [M EXCEPT ![i + 1][j + 1] = v]

Transpose(M, r, c) == V([j \in 1..c |-> V([i \in 1..r |-> M[i][j]])])

(* a negative index counts from the end *)
PyIndex(i, n) == IF i < 0 THEN i + n ELSE i

RECURSIVE TriuFrom(_, _, _)
TriuFrom(i, j, n) ==
    IF i >= n THEN <<>>
    ELSE IF j >= n THEN TriuFrom(i + 1, i + 1, n)
    ELSE <<<<i, j>>>> \o TriuFrom(i, j + 1, n)

RECURSIVE TrilFrom(_, _, _)
TrilFrom(i, j, n) ==
    IF i >= n THEN <<>>
    ELSE IF j > i THEN TrilFrom(i + 1, 0, n)
    ELSE <<<<i, j>>>> \o TrilFrom(i, j + 1, n)

Unzip(s) == <<V([k \in 1..Len(s) |-> s[k][1]]), V([k \in 1..Len(s) |-> s[k][2]])>>

(* np.triu_indices(n), np.tril_indices(n): (row indices, column indices) *)
triu_indices(n) == Unzip(TriuFrom(0, 0, n))
tril_indices(n) == Unzip(TrilFrom(0, 0, n))

(* M[(rows, cols)] = vals: the k-th value goes to (rows[k], cols[k]) *)
RECURSIVE SetIndices(_, _, _, _, _)
SetIndices(M, rows, cols, vals, k) ==
    IF k > Len(rows) THEN M
    ELSE SetIndices(Set(M, rows[k], cols[k], vals[k]), rows, cols, vals, k + 1)

RECURSIVE SumSeq(_, _)
SumSeq(s, k) == IF k > Len(s) THEN Zero ELSE Add(s[k], SumSeq(s, k + 1))

(* A @ B, each entry accumulated in index order *)
RECURSIVE Dot(_, _, _, _, _)
Dot(A, B, i, j, k) ==
    IF k = 0 THEN Zero
    ELSE Add(Dot(A, B, i, j, k - 1), Mul(A[i][k], B[k][j]))

MatMul(A, B) ==
    V([i \in 1..Rows(A) |-> V([j \in 1..Cols(B) |-> Dot(A, B, i, j, Cols(A))])])

(* np.diag(v) *)
Diag(v) ==
    V([i \in 1..Len(v) |-> V([j \in 1..Len(v) |-> IF i = j THEN v[i] ELSE Zero])])

-----------------------------------------------------------------------------
(* What an optimizer returns: a matrix, or the sentinel NotImplemented *)

NotImplemented == [tag |-> "NotImplemented", m |-> <<>>]
Matrix(m) == [tag |-> "matrix", m |-> m]

(* constant_weights(): None, or the operator's weights w_0 .. w_m *)
None == [const |-> FALSE, w |-> <<>>]
Weights(w) == [const |-> TRUE, w |-> w]

a_of(b) == b.domain_range[1]
b_of(b) == b.domain_range[2]

-----------------------------------------------------------------------------
(* penalty_matrix_numerical *)

Primes == <<2, 3, 5, 7, 11, 13, 17, 19>>

(* self.linear_diff_op(basis)([x])[:, 0]: one value per basis function.   *)
(* The operator applied to the basis is the caller's; here every L phi_i  *)
(* is a constant function, no two of them with the same value.            *)
linear_diff_op_eval(b) == V([i \in 1..b.n_basis |-> Q(Primes[i])])

(* scipy.integrate.quad_vec of an integrand that is constant on [lo, hi] *)
quad_vec(f, lo, hi) == V([k \in 1..Len(f) |-> Mul(f[k], Sub(hi, lo))])

cross_product(b, indices) ==
    LET res == linear_diff_op_eval(b)
    IN  V([k \in 1..Len(indices[1]) |->
            Mul(res[indices[1][k] + 1], res[indices[2][k] + 1])])

(* variant: the second assignment through the same indices as the first *)
lower_indices_same(indices) == <<indices[1], indices[2]>>

(* (indices[1], indices[0]): the mirror of each upper-triangle position *)
lower_indices(indices) == <<indices[2], indices[1]>>

penalty_matrix_numerical(b) ==
    LET indices == triu_indices(b.n_basis)
        triang_vec == quad_vec(cross_product(b, indices), a_of(b), b_of(b))
        upper == SetIndices(Empty(b.n_basis, b.n_basis),
                            indices[1], indices[2], triang_vec, 1)
        lower == lower_indices(indices)
    IN  SetIndices(upper, lower[1], lower[2], triang_vec, 1)

-----------------------------------------------------------------------------
(* constant_penalty_matrix_optimized *)

(* variant: the last weight in place of the first *)
constant_penalty_matrix_last_weight(b, coefs) ==
    IF ~coefs.const THEN NotImplemented
    ELSE Matrix(<<<<Mul(Mul(coefs.w[Len(coefs.w)], coefs.w[Len(coefs.w)]),
                       Sub(b_of(b), a_of(b)))>>>>)

constant_penalty_matrix_optimized(b, coefs) ==
    IF ~coefs.const THEN NotImplemented
    ELSE Matrix(<<<<Mul(Mul(coefs.w[1], coefs.w[1]),
                       Sub(b_of(b), a_of(b)))>>>>)

-----------------------------------------------------------------------------
(* Polynomials, as numpy keeps them: coefficients, highest power first *)

(* np.polyval: Horner's rule *)
RECURSIVE Horner(_, _, _)
Horner(p, x, k) ==
    IF k = 0 THEN Zero ELSE Add(Mul(Horner(p, x, k - 1), x), p[k])

polyval(p, x) == Horner(p, x, Len(p))

(* entry c (from 0) of the product of the coefficient vectors p and q *)
RECURSIVE ConvAt(_, _, _, _)
ConvAt(p, q, c, s) ==
    IF s > Len(p) THEN Zero
    ELSE LET t == c + 2 - s
             rest == ConvAt(p, q, c, s + 1)
         IN  IF t >= 1 /\ t <= Len(q) THEN Add(Mul(p[s], q[t]), rest) ELSE rest

(* np.polymul, and irfft(rfft(p, len) * rfft(q, len), len) with            *)
(* len = Len(p) + Len(q) - 1: the linear convolution of p and q            *)
polymul(p, q) ==
    IF Len(p) = 0 \/ Len(q) = 0 THEN <<>>
    ELSE V([c \in 1..(Len(p) + Len(q) - 1) |-> ConvAt(p, q, c - 1, 1)])

-----------------------------------------------------------------------------
(* _monomial_evaluate_constant_linear_diff_op *)

(* np.cumprod down the rows of coef_mat, whose row r is seq - r:           *)
(* k (k-1) ... (k-r)                                                       *)
RECURSIVE CumProd(_, _)
CumProd(k, r) == IF r < 0 THEN 1 ELSE (k - r) * CumProd(k, r - 1)

Flatten(M) ==
    V([x \in 1..(Rows(M) * Cols(M)) |->
        M[((x - 1) \div Cols(M)) + 1][((x - 1) % Cols(M)) + 1]])

(* ndarray.resize(r, c): the flat data cut or extended with zeros *)
Resize(M, r, c) ==
    LET flat == Flatten(M)
    IN  V([i \in 1..r |-> V([j \in 1..c |->
            LET x == (i - 1) * c + j
            IN  IF x <= Len(flat) THEN flat[x] ELSE Zero])])

(* variant: the shift of the columns without the - 1 *)
shifted_column_by_row(r, c, n) == PyIndex(c - r, n)

(* indexes[1] - indexes[0] - 1: the column of row r that takes the entry  *)
(* of column c, counted from the end of the row                           *)
shifted_column(r, c, n) == PyIndex(c - r - 1, n)

monomial_evaluate_constant_linear_diff_op(b, w) ==
    LET n == b.n_basis
        max_derivative == Len(w) - 1
        \* row d of coefs: derivative d of each x^k, the row of ones first
        coefs == V([d \in 1..(max_derivative + 1) |-> V([k \in 1..n |->
                    IF d = 1 THEN One ELSE Round(Q(CumProd(k - 1, d - 2)))])])
        coefs_t == Transpose(coefs, max_derivative + 1, n)
        weighted_coefs == V([k \in 1..n |-> V([d \in 1..(max_derivative + 1) |->
                              Mul(coefs_t[k][d], w[d])])])
        resized == Transpose(
                       Resize(Transpose(weighted_coefs, n, max_derivative + 1),
                              n, n), n, n)
        indexes == tril_indices(n)
        shifted == V([k \in 1..Len(indexes[1]) |->
                       shifted_column(indexes[1][k], indexes[2][k], n)])
        vals == V([k \in 1..Len(indexes[1]) |->
                    At(resized, indexes[1][k], indexes[2][k])])
    IN  SetIndices(Zeros(n, n), indexes[1], shifted, vals, 1)

-----------------------------------------------------------------------------
(* monomial_penalty_matrix_optimized *)

(* the integrals of the products of the pairs of polynomials (i, j), i <= j *)
monomial_integral(b, polynomials, indices) ==
    LET length_with_padding == Cols(polynomials) * 2 - 1
        integrand == V([k \in 1..Len(indices[1]) |->
                         polymul(polynomials[indices[1][k] + 1],
                                 polynomials[indices[2][k] + 1])])
        \* denom = arange(length, 0, -1); a column of zeros at the right
        divided == V([k \in 1..Len(integrand) |->
                       V([c \in 1..(length_with_padding + 1) |->
                           IF c > length_with_padding THEN Zero
                           ELSE Div(integrand[k][c],
                                    Q(length_with_padding + 1 - c))])])
    IN  V([k \in 1..Len(divided) |->
            Sub(polyval(divided[k], b_of(b)), polyval(divided[k], a_of(b)))])

monomial_penalty_matrix_optimized(b, wts) ==
    IF ~wts.const THEN NotImplemented
    ELSE
    LET polynomials == monomial_evaluate_constant_linear_diff_op(b, wts.w)
        indices == triu_indices(b.n_basis)
        integral == monomial_integral(b, polynomials, indices)
        upper == SetIndices(Empty(b.n_basis, b.n_basis),
                            indices[1], indices[2], integral, 1)
        lower == lower_indices(indices)
    IN  Matrix(SetIndices(upper, lower[1], lower[2], integral, 1))

-----------------------------------------------------------------------------
(* _fourier_penalty_matrix_optimized_orthonormal *)

(* np.pi, to the model's accuracy *)
Pi == <<22, 7>>

(* variant: signs that alternate *)
signs_alternating == <<1, -1, 1, -1>>

signs == <<1, 1, -1, -1>>

RECURSIVE Tile(_, _)
Tile(s, r) == IF r = 0 THEN <<>> ELSE s \o Tile(s, r - 1)

(* row k of np.vander(phases, len, increasing=True): 1, p, p^2, ... *)
RECURSIVE Powers(_, _)
Powers(x, len) ==
    IF len = 0 THEN <<>>
    ELSE IF len = 1 THEN <<One>>
    ELSE LET prev == Powers(x, len - 1)
         IN  Append(prev, Mul(prev[len - 1], x))

(* the sum of s[from], s[from + 2], ...  (s[:, ::2] and s[:, 1::2]) *)
RECURSIVE SumStride2(_, _)
SumStride2(s, from) ==
    IF from > Len(s) THEN Zero ELSE Add(s[from], SumStride2(s, from + 2))

fourier_main_diag(b, w) ==
    LET len == Len(w)
        signs_expanded == Tile(signs, (len \div 4) + 1)
        signs_odd == SubSeq(signs_expanded, 1, len)
        signs_even == SubSeq(signs_expanded, 2, len + 1)
        n_freq == (b.n_basis - 1) \div 2
        phases == V([k \in 1..n_freq |->
                      Div(Mul(Mul(Q(k), Q(2)), Round(Pi)), b.period)])
        coefs_no_sign == V([k \in 1..n_freq |->
                             LET v == Powers(phases[k], len)
                             IN  V([d \in 1..len |-> Mul(v[d], w[d])])])
        coefs_odd == V([k \in 1..n_freq |-> V([d \in 1..len |->
                         Mul(Q(signs_odd[d]), coefs_no_sign[k][d])])])
        coefs_even == V([k \in 1..n_freq |-> V([d \in 1..len |->
                          Mul(Q(signs_even[d]), coefs_no_sign[k][d])])])
        odd_sin_coefs == V([k \in 1..n_freq |-> SumStride2(coefs_odd[k], 1)])
        odd_cos_coefs == V([k \in 1..n_freq |-> SumStride2(coefs_odd[k], 2)])
        even_cos_coefs == V([k \in 1..n_freq |-> SumStride2(coefs_even[k], 1)])
        even_sin_coefs == V([k \in 1..n_freq |-> SumStride2(coefs_even[k], 2)])
        main_diag_odd == V([k \in 1..n_freq |->
                             Add(Mul(odd_sin_coefs[k], odd_sin_coefs[k]),
                                 Mul(odd_cos_coefs[k], odd_cos_coefs[k]))])
        main_diag_even == V([k \in 1..n_freq |->
                              Add(Mul(even_sin_coefs[k], even_sin_coefs[k]),
                                  Mul(even_cos_coefs[k], even_cos_coefs[k]))])
    IN  \* np.array((main_diag_odd, main_diag_even)).T.ravel()
        V([x \in 1..(2 * n_freq) |->
            IF x % 2 = 1 THEN main_diag_odd[(x + 1) \div 2]
            ELSE main_diag_even[x \div 2]])

(* variant: np.pad(M, 1), zeros on every side *)
PadAround(M) ==
    LET r == Rows(M)
    IN  V([i \in 1..(r + 2) |-> V([j \in 1..(r + 2) |->
            IF i = 1 \/ j = 1 \/ i = r + 2 \/ j = r + 2 THEN Zero
            ELSE M[i - 1][j - 1]])])

(* np.pad(M, ((1, 0), (1, 0))): a row and a column of zeros in front *)
PadFront(M) ==
    LET r == Rows(M)
    IN  V([i \in 1..(r + 1) |-> V([j \in 1..(r + 1) |->
            IF i = 1 \/ j = 1 THEN Zero ELSE M[i - 1][j - 1]])])

fourier_penalty_matrix_optimized_orthonormal(b, w) ==
    LET main_diag == fourier_main_diag(b, w)
        padded == PadFront(Diag(main_diag))
    IN  Set(padded, 0, 0, Mul(w[1], w[1]))

(* fourier_penalty_matrix_optimized *)
fourier_penalty_matrix_optimized(b, wts) ==
    IF ~wts.const THEN NotImplemented
    ELSE IF b.period # Sub(b_of(b), a_of(b)) THEN NotImplemented
    ELSE Matrix(fourier_penalty_matrix_optimized_orthonormal(b, wts.w))

-----------------------------------------------------------------------------
(* The B-spline basis: what the optimizer asks of the basis object and of   *)
(* scipy's PPoly.from_spline.  B-splines are taken by their definition (the *)
(* Cox-de Boor recursion), computed over the rationals; what the program    *)
(* receives is that value, rounded.                                         *)

(* basis._evaluation_knots(): order - 1 more knots at each boundary *)
evaluation_knots(b) ==
    LET k == b.knots
    IN  V([x \in 1..(b.order - 1) |-> k[1]]) \o k
        \o V([x \in 1..(b.order - 1) |-> k[Len(k)]])

(* np.diff *)
diff(s) == V([x \in 1..(Len(s) - 1) |-> Sub(Q(s[x + 1]), Q(s[x]))])

(* p(u) * (c1 u + c0), over the rationals *)
QMulLinear(p, c1, c0) ==
    V([x \in 1..(Len(p) + 1) |->
        QAdd(IF x <= Len(p) THEN QMul(p[x], c1) ELSE Zero,
             IF x >= 2 THEN QMul(p[x - 1], c0) ELSE Zero)])

(* B_{i,k} on [t_q, t_q+1] as a polynomial in u = x - t_q; t, i, q from 0 *)
RECURSIVE Piece(_, _, _, _)
Piece(t, i, k, q) ==
    IF k = 1 THEN <<IF i = q THEN One ELSE Zero>>
    ELSE LET dl == t[i + k] - t[i + 1]
             dr == t[i + k + 1] - t[i + 2]
             left == IF dl = 0 THEN V([x \in 1..k |-> Zero])
                     ELSE QMulLinear(Piece(t, i, k - 1, q),
                                     <<1, dl>>, Norm(t[q + 1] - t[i + 1], dl))
             right == IF dr = 0 THEN V([x \in 1..k |-> Zero])
                      ELSE QMulLinear(Piece(t, i + 1, k - 1, q),
                                      <<-1, dr>>,
                                      Norm(t[i + k + 1] - t[q + 1], dr))
         IN  V([x \in 1..k |-> QAdd(left[x], right[x])])

RECURSIVE QPolyDer(_, _)
QPolyDer(p, m) ==
    IF m = 0 THEN p
    ELSE QPolyDer(V([x \in 1..(Len(p) - 1) |-> QMul(p[x], Q(Len(p) - x))]), m - 1)

RECURSIVE QHorner(_, _, _)
QHorner(p, x, k) ==
    IF k = 0 THEN Zero ELSE QAdd(QMul(QHorner(p, x, k - 1), x), p[k])

(* the intervals of positive length of the knot vector t, from 0 *)
NonZeroIntervals(t) == {q \in 0..(Len(t) - 2) : t[q + 1] < t[q + 2]}

SetMax(S) == CHOOSE x \in S : \A y \in S : y <= x
SetMin(S) == CHOOSE x \in S : \A y \in S : x <= y

(* the set S of integers as an increasing sequence *)
RECURSIVE Sorted(_)
Sorted(S) == IF S = {} THEN <<>>
             ELSE <<SetMin(S)>> \o Sorted(S \ {SetMin(S)})

(* the interval x is evaluated in: the last one that starts at or before x *)
FindInterval(t, x) ==
    SetMax({q \in NonZeroIntervals(t) : ~QLess(x, Q(t[q + 1]))})

(* basis.evaluate(points, derivative=d): row i, the d-th derivative of the *)
(* i-th basis function at each point                                       *)
bspline_evaluate(b, points, d) ==
    LET t == evaluation_knots(b)
    IN  V([i \in 1..b.n_basis |-> V([x \in 1..Len(points) |->
            LET q == FindInterval(t, points[x])
                der == QPolyDer(Piece(t, i - 1, b.order, q), d)
            IN  Round(QHorner(der, QSub(points[x], Q(t[q + 1])), Len(der)))])])

(* PPoly.from_spline((knots, c, order - 1)).c[:, no_0_intervals] with c the *)
(* i-th unit vector: column x, the coefficients on the x-th interval of    *)
(* positive length, in powers of (x - left knot), highest first            *)
from_spline(b, i) ==
    LET t == evaluation_knots(b)
        no_0_intervals == Sorted(NonZeroIntervals(t))
    IN  V([x \in 1..Len(no_0_intervals) |->
            LET piece == Piece(t, i, b.order, no_0_intervals[x])
            IN  V([c \in 1..Len(piece) |-> Round(piece[c])])])

-----------------------------------------------------------------------------
(* numpy's polynomial calculus *)

(* np.trim_zeros(p, 'f') *)
RECURSIVE trim_zeros(_)
trim_zeros(p) ==
    IF Len(p) = 0 THEN p
    ELSE IF p[1] = Zero THEN trim_zeros(Tail(p)) ELSE p

RECURSIVE polyder(_, _)
polyder(p, m) ==
    IF m = 0 THEN p
    ELSE polyder(V([x \in 1..(Len(p) - 1) |-> Mul(p[x], Q(Len(p) - x))]), m - 1)

polyint(p) ==
    V([x \in 1..(Len(p) + 1) |->
        IF x > Len(p) THEN Zero ELSE Div(p[x], Q(Len(p) + 1 - x))])

-----------------------------------------------------------------------------
(* bspline_penalty_matrix_optimized *)

(* variant: every nonzero weight kept *)
nonzero_unfiltered(b, w) == {d \in 0..(Len(w) - 1) : w[d + 1] # Zero}

(* variant: the weight at the spline order kept too *)
nonzero_up_to_order(b, w) ==
    {d \in 0..(Len(w) - 1) : w[d + 1] # Zero /\ d <= b.order}

(* np.flatnonzero(coefs), kept below the order of the spline *)
nonzero(b, w) == {d \in 0..(Len(w) - 1) : w[d + 1] # Zero /\ d < b.order}

(* the branch derivative_degree == basis.order - 1 *)
bspline_constant_derivative(b, derivative_degree) ==
    LET knots == b.knots
        mid_inter == V([x \in 1..(Len(knots) - 1) |->
                         Div(Add(Q(knots[x + 1]), Q(knots[x])), Q(2))])
        constants == Transpose(bspline_evaluate(b, mid_inter, derivative_degree),
                               b.n_basis, Len(mid_inter))
        knots_intervals == diff(b.knots)
    IN  MatMul(MatMul(Transpose(constants, Len(mid_inter), b.n_basis),
                      Diag(knots_intervals)),
               constants)

(* the definite integral over the interval of the product of the           *)
(* derivatives of two of the local polynomials                             *)
definite_integral(b, poly_i, poly_j, derivative_degree, intv) ==
    LET integral == polyint(polymul(polyder(poly_i, derivative_degree),
                                    polyder(poly_j, derivative_degree)))
        lo == Sub(Q(b.knots[intv + 1]), Q(b.knots[intv + 1]))
        hi == Sub(Q(b.knots[intv + 2]), Q(b.knots[intv + 1]))
    IN  Sub(polyval(integral, hi), polyval(integral, lo))

(* variant: the lower triangle left as it was *)
mirror_skipped(pm, i, j) == pm

(* penalty_matrix[j, i] = penalty_matrix[i, j] *)
mirror(pm, i, j) == Set(pm, j, i, At(pm, i, j))

(* for j in range(i + 1, basis.n_basis) *)
RECURSIVE loop_j(_, _, _, _, _, _, _)
loop_j(pm, b, ppoly_lst, derivative_degree, intv, i, j) ==
    IF j >= b.n_basis THEN pm
    ELSE LET poly_i == trim_zeros(ppoly_lst[i + 1][intv + 1])
             poly_j == trim_zeros(ppoly_lst[j + 1][intv + 1])
         IN  IF Len(poly_j) <= derivative_degree
             THEN loop_j(pm, b, ppoly_lst, derivative_degree, intv, i, j + 1)
             ELSE LET added == Set(pm, i, j,
                                   Add(At(pm, i, j),
                                       definite_integral(b, poly_i, poly_j,
                                           derivative_degree, intv)))
                      mirrored == mirror(added, i, j)
                  IN  loop_j(mirrored, b, ppoly_lst, derivative_degree, intv,
                             i, j + 1)

(* for i in range(basis.n_basis) *)
RECURSIVE loop_i(_, _, _, _, _, _)
loop_i(pm, b, ppoly_lst, derivative_degree, intv, i) ==
    IF i >= b.n_basis THEN pm
    ELSE LET poly_i == trim_zeros(ppoly_lst[i + 1][intv + 1])
         IN  IF Len(poly_i) <= derivative_degree
             THEN loop_i(pm, b, ppoly_lst, derivative_degree, intv, i + 1)
             ELSE LET diag == Set(pm, i, i,
                                  Add(At(pm, i, i),
                                      definite_integral(b, poly_i, poly_i,
                                          derivative_degree, intv)))
                  IN  loop_i(loop_j(diag, b, ppoly_lst, derivative_degree,
                                    intv, i, i + 1),
                             b, ppoly_lst, derivative_degree, intv, i + 1)

(* ppoly_lst: the piecewise polynomial of every basis function *)
ppoly_list(b) == V([i \in 1..b.n_basis |-> from_spline(b, i - 1)])

(* one pass of the loop over the intervals *)
interval_pass(pm, b, w, intv) ==
    loop_i(pm, b, ppoly_list(b), SetMin(nonzero(b, w)), intv, 0)

has_zero_length_interval(b) ==
    \E x \in 1..(Len(b.knots) - 1) : diff(b.knots)[x] = Zero

(* the part of the optimizer before its loop: what it returns there, or    *)
(* "loop" when it goes on to the piecewise polynomials                     *)
bspline_before_loop(b, coefs) ==
    IF ~coefs.const THEN NotImplemented
    ELSE LET nz == nonzero(b, coefs.w)
         IN  IF Cardinality(nz) = 0 THEN Matrix(Zeros(b.n_basis, b.n_basis))
             ELSE IF Cardinality(nz) # 1 THEN NotImplemented
             ELSE IF SetMin(nz) = b.order - 1
                  THEN Matrix(bspline_constant_derivative(b, SetMin(nz)))
             ELSE IF has_zero_length_interval(b) THEN NotImplemented
             ELSE [tag |-> "loop", m |-> <<>>]

n_intervals(b) == Cardinality(NonZeroIntervals(evaluation_knots(b)))

-----------------------------------------------------------------------------
(* The inputs *)

WeightVals == {0, 1, 2}

WeightVectors ==
    UNION {[1..len -> WeightVals] : len \in 1..MaxLen}

Domains == {<<0, 1>>, <<-1, 1>>, <<0, 2>>}

KnotVectors ==
    {<<0, 1>>, <<0, 2>>, <<0, 1, 2>>, <<0, 1, 3>>, <<0, 3, 5>>, <<0, 1, 1, 2>>}

Orders == {1, 2, 3}

Basis(kind, n, lo, hi, period, knots, order) ==
    [kind |-> kind, n_basis |-> n, domain_range |-> <<lo, hi>>,
     period |-> period, knots |-> knots, order |-> order]

TwoPi == QMul(Q(2), Pi)

Bases(p) ==
    LET R(x) == IF p = 0 THEN x ELSE Fl(x, p)
    IN  {Basis("Constant", 1, Q(d[1]), Q(d[2]), Zero, <<>>, 0) : d \in Domains}
        \cup
        {Basis("Monomial", n, Q(d[1]), Q(d[2]), Zero, <<>>, 0) :
            n \in 1..MaxMonomial, d \in Domains}
        \cup
        {Basis("Fourier", n, Zero, R(x[1]), R(x[2]), <<>>, 0) :
            n \in 1..MaxFourier,
            x \in {<<TwoPi, TwoPi>>, <<Pi, Pi>>, <<TwoPi, Pi>>}}
        \cup
        {Basis("BSpline", Len(k) + o - 2, Q(k[1]), Q(k[Len(k)]), Zero, k, o) :
            k \in KnotVectors, o \in Orders}
        \cup
        {Basis("Other", n, Q(d[1]), Q(d[2]), Zero, <<>>, 0) :
            n \in 1..2, d \in Domains}

InitWith(p) ==
    /\ prec = p
    /\ basis \in Bases(p)
    /\ weights \in {None} \cup
                   {Weights(V([d \in 1..Len(w) |-> Q(w[d])])) : w \in WeightVectors}
    /\ pc = "call"
    /\ optimized = NotImplemented
    /\ penalty_matrix = <<>>
    /\ interval = 0
    /\ numerical_called = FALSE
    /\ result = NotImplemented

(* arithmetic over the reals *)
Init == InitWith(0)

(* arithmetic over the reals, or rounded to MantBits bits *)
InitArith == \E p \in {0, MantBits} : InitWith(p)

-----------------------------------------------------------------------------
(* penalty_matrix: the dispatch on the basis's class, then the fallback *)

Dispatched(opt) ==
    /\ optimized' = opt
    /\ pc' = "dispatched"
    /\ UNCHANGED <<basis, weights, prec, penalty_matrix, interval,
                   numerical_called, result>>

Optimize_Constant ==
    /\ pc = "call" /\ basis.kind = "Constant"
    /\ Dispatched(constant_penalty_matrix_optimized(basis, weights))

Optimize_Monomial ==
    /\ pc = "call" /\ basis.kind = "Monomial"
    /\ Dispatched(monomial_penalty_matrix_optimized(basis, weights))

Optimize_Fourier ==
    /\ pc = "call" /\ basis.kind = "Fourier"
    /\ Dispatched(fourier_penalty_matrix_optimized(basis, weights))

(* no optimizer is registered for the class: the generic function *)
Optimize_Default ==
    /\ pc = "call"
    /\ basis.kind \notin {"Constant", "Monomial", "Fourier", "BSpline"}
    /\ Dispatched(NotImplemented)

Optimize_BSpline ==
    /\ pc = "call" /\ basis.kind = "BSpline"
    /\ LET r == bspline_before_loop(basis, weights)
       IN  IF r.tag = "loop"
           THEN /\ pc' = "loop"
                /\ penalty_matrix' = Zeros(basis.n_basis, basis.n_basis)
                /\ interval' = 0
                /\ UNCHANGED <<basis, weights, prec, optimized,
                               numerical_called, result>>
           ELSE Dispatched(r)

(* one pass of "for interval in range(len(no_0_intervals))" *)
BSpline_Interval ==
    /\ pc = "loop" /\ interval < n_intervals(basis)
    /\ penalty_matrix' = interval_pass(penalty_matrix, basis, weights.w,
                                       interval)
    /\ interval' = interval + 1
    /\ UNCHANGED <<basis, weights, prec, pc, optimized, numerical_called,
                   result>>

BSpline_Return ==
    /\ pc = "loop" /\ interval >= n_intervals(basis)
    /\ optimized' = Matrix(penalty_matrix)
    /\ pc' = "dispatched"
    /\ UNCHANGED <<basis, weights, prec, penalty_matrix, interval,
                   numerical_called, result>>

(* matrix is NotImplemented: return self.penalty_matrix_numerical(basis) *)
Fallback ==
    /\ pc = "dispatched" /\ optimized = NotImplemented
    /\ result' = Matrix(penalty_matrix_numerical(basis))
    /\ numerical_called' = TRUE
    /\ pc' = "done"
    /\ UNCHANGED <<basis, weights, prec, optimized, penalty_matrix, interval>>

(* variant: whatever the optimizer answered is returned *)
Return_unchecked ==
    /\ pc = "dispatched"
    /\ result' = optimized
    /\ pc' = "done"
    /\ UNCHANGED <<basis, weights, prec, optimized, penalty_matrix, interval,
                   numerical_called>>

Return ==
    /\ pc = "dispatched" /\ optimized # NotImplemented
    /\ result' = optimized
    /\ pc' = "done"
    /\ UNCHANGED <<basis, weights, prec, optimized, penalty_matrix, interval,
                   numerical_called>>

Next ==
    \/ Optimize_Constant
    \/ Optimize_Monomial
    \/ Optimize_Fourier
    \/ Optimize_BSpline
    \/ Optimize_Default
    \/ BSpline_Interval
    \/ BSpline_Return
    \/ Fallback
    \/ Return

Spec == Init /\ [][Next]_vars
SpecArith == InitArith /\ [][Next]_vars

-----------------------------------------------------------------------------
(* Properties *)

NBasis == basis.n_basis
Registered == {"Constant", "Monomial", "Fourier", "BSpline"}
Returned == pc = "done"
OptimizerReturned == pc \in {"dispatched", "done"}
OptimizerMatrix == OptimizerReturned /\ optimized.tag = "matrix"

(* the derivative orders below the spline order that carry a weight *)
LowOrders == {d \in 0..(Len(weights.w) - 1) :
                 d < basis.order /\ weights.w[d + 1] # Zero}
TheOrder == CHOOSE d \in LowOrders : TRUE
ZeroLengthInterval ==
    \E x \in 1..(Len(basis.knots) - 1) : basis.knots[x] = basis.knots[x + 1]
BSplineConst == basis.kind = "BSpline" /\ weights.const
TopDerivative ==
    BSplineConst /\ Cardinality(LowOrders) = 1 /\ TheOrder = basis.order - 1

Symmetric(M) ==
    \A i \in 1..Rows(M) : \A j \in 1..Cols(M) : M[i][j] = M[j][i]

(* C1: penalty_matrix never returns NotImplemented: it returns the         *)
(* optimizer's matrix when there is one and the numerical fallback's       *)
(* otherwise, and the fallback runs if and only if the optimizer returned  *)
(* the sentinel.                                                           *)
C1_NeverReturnsSentinel ==
    /\ numerical_called => optimized = NotImplemented
    /\ Returned =>
         /\ result.tag = "matrix"
         /\ numerical_called <=> (optimized = NotImplemented)
         /\ result = IF optimized = NotImplemented
                     THEN Matrix(penalty_matrix_numerical(basis))
                     ELSE optimized

C1_Witness ==
    /\ Returned /\ basis.kind = "Fourier" /\ weights.const
    /\ numerical_called /\ result.tag = "matrix"

(* C9: for the Constant basis on [a, b] and constant weights the result is *)
(* the 1 x 1 matrix [[w_0^2 (b - a)]] whatever w_1 .. w_m are; on [0, 1]    *)
(* with w_0 = 2 it is [[4]].                                               *)
C9_ConstantClosedForm ==
    (Returned /\ basis.kind = "Constant" /\ weights.const) =>
        /\ result = Matrix(<<<<QMul(QMul(weights.w[1], weights.w[1]),
                                   QSub(b_of(basis), a_of(basis)))>>>>)
        /\ (basis.domain_range = <<Q(0), Q(1)>> /\ weights.w[1] = Q(2))
               => result.m = <<<<Q(4)>>>>

C9_Witness ==
    /\ Returned /\ basis.kind = "Constant"
    /\ basis.domain_range = <<Q(0), Q(1)>>
    /\ weights = Weights(<<Q(2), Q(1), Q(2)>>)
    /\ result.m = <<<<Q(4)>>>>

(* C5: an optimizer answers NotImplemented exactly when (1) the weights    *)
(* are not constant, (2) Fourier: the period is not b - a, (3) B-spline:   *)
(* more than one nonzero weight below the spline order, (4) B-spline: one  *)
(* such weight, not at order - 1, and a knot interval of length zero.      *)
Declines ==
    \/ ~weights.const
    \/ basis.kind = "Fourier"
         /\ basis.period # QSub(b_of(basis), a_of(basis))
    \/ BSplineConst /\ Cardinality(LowOrders) > 1
    \/ BSplineConst /\ Cardinality(LowOrders) = 1
         /\ TheOrder # basis.order - 1 /\ ZeroLengthInterval

C5_DeclinesExactly ==
    basis.kind \in Registered =>
        /\ OptimizerReturned => ((optimized = NotImplemented) <=> Declines)
        /\ pc = "loop" => ~Declines

C5_Witness ==
    /\ OptimizerMatrix /\ TopDerivative /\ ZeroLengthInterval
    /\ basis.order = 2

(* C8: for a B-spline basis and constant weights none of which is nonzero  *)
(* below the spline order the optimizer returns the zero matrix, whatever  *)
(* the knots; the weights at or above the spline order never change what   *)
(* the optimizer does.                                                     *)
RECURSIVE run_loop(_, _, _, _)
run_loop(pm, b, w, intv) ==
    IF intv >= n_intervals(b) THEN pm
    ELSE run_loop(interval_pass(pm, b, w, intv), b, w, intv + 1)

bspline_run(b, wts) ==
    LET r == bspline_before_loop(b, wts)
    IN  IF r.tag = "loop"
        THEN Matrix(run_loop(Zeros(b.n_basis, b.n_basis), b, wts.w, 0))
        ELSE r

BelowOrder ==
    Weights(SubSeq(weights.w, 1,
                   IF Len(weights.w) < basis.order THEN Len(weights.w)
                   ELSE basis.order))

C8_HighOrdersIgnored ==
    BSplineConst =>
        /\ (OptimizerReturned /\ LowOrders = {})
               => optimized = Matrix(Zeros(NBasis, NBasis))
        /\ OptimizerReturned => optimized = bspline_run(basis, BelowOrder)
        /\ pc = "loop" => bspline_before_loop(basis, BelowOrder).tag = "loop"

C8_Witness ==
    /\ OptimizerReturned /\ BSplineConst
    /\ basis.order = 2 /\ basis.knots = <<0, 1, 1, 2>>
    /\ weights = Weights(<<Q(0), Q(0), Q(1)>>)
    /\ optimized = Matrix(Zeros(4, 4))

(* C6: for a Monomial basis on [a, b] and constant weights w_0 .. w_m of    *)
(* any length the optimized matrix is R_ij = integral of P_i P_j over      *)
(* [a, b], P_k = sum over d of w_d k (k-1) .. (k-d+1) x^(k-d); row k of    *)
(* the coefficient matrix holds the coefficient of x^(k-d) at column       *)
(* n-1-(k-d); n = 3 on [0, 1] with weights [0, 0, 1] gives R[2][2] = 4 and *)
(* 0 everywhere else.                                                      *)
RECURSIVE Factorial(_)
Factorial(k) == IF k = 0 THEN 1 ELSE k * Factorial(k - 1)

(* the coefficient of x^e in P_k *)
PCoef(k, e) ==
    IF e <= k /\ k - e < Len(weights.w)
    THEN QMul(weights.w[k - e + 1], Q(Factorial(k) \div Factorial(e)))
    ELSE Zero

(* the integral over [a, b] of x^e *)
PowerIntegral(e) ==
    QDiv(QSub(QPow(b_of(basis), e + 1), QPow(a_of(basis), e + 1)), Q(e + 1))

RECURSIVE QSum(_, _)
QSum(s, k) == IF k > Len(s) THEN Zero ELSE QAdd(s[k], QSum(s, k + 1))

PIntegral(i, j) ==
    QSum([e1 \in 1..NBasis |->
            QSum([e2 \in 1..NBasis |->
                    QMul(QMul(PCoef(i, e1 - 1), PCoef(j, e2 - 1)),
                         PowerIntegral(e1 + e2 - 2))], 1)], 1)

MonomialConst == basis.kind = "Monomial" /\ weights.const

C6_MonomialIntegrals ==
    (OptimizerReturned /\ MonomialConst) =>
        /\ optimized =
             Matrix([i \in 1..NBasis |-> [j \in 1..NBasis |->
                       PIntegral(i - 1, j - 1)]])
        /\ monomial_evaluate_constant_linear_diff_op(basis, weights.w) =
             [k \in 1..NBasis |-> [c \in 1..NBasis |->
                PCoef(k - 1, NBasis - c)]]
        /\ (NBasis = 3 /\ basis.domain_range = <<Q(0), Q(1)>>
              /\ weights.w = <<Q(0), Q(0), Q(1)>>)
               => optimized.m = [i \in 1..3 |-> [j \in 1..3 |->
                                   IF i = 3 /\ j = 3 THEN Q(4) ELSE Zero]]

C6_Witness ==
    /\ Returned /\ MonomialConst /\ NBasis = 3
    /\ basis.domain_range = <<Q(0), Q(1)>>
    /\ weights.w = <<Q(0), Q(0), Q(1)>>
    /\ At(result.m, 2, 2) = Q(4)
    /\ At(result.m, 1, 1) = Zero

(* C10: the fallback and the monomial optimizer allocate their n x n       *)
(* result uninitialised and assign every position before returning: the    *)
(* upper-triangle positions and their transposes cover the matrix, and the *)
(* k-th of the n(n+1)/2 values goes to its pair (i_k, j_k) and to the      *)
(* mirror (j_k, i_k).                                                      *)
NoUninit(M) ==
    \A i \in 1..Rows(M) : \A j \in 1..Len(M[i]) : M[i][j] # Uninit

(* the place of the pair (i, j), i <= j, in the row-major upper triangle *)
PairPlace(i, j) == i * NBasis - ((i * (i - 1)) \div 2) + (j - i) + 1

Least(i, j) == IF i < j THEN i ELSE j
Greatest(i, j) == IF i < j THEN j ELSE i

EachPairAndMirror(M, values) ==
    /\ Rows(M) = NBasis
    /\ \A i \in 0..(NBasis - 1) :
         /\ Len(M[i + 1]) = NBasis
         /\ \A j \in 0..(NBasis - 1) :
              At(M, i, j) = values[PairPlace(Least(i, j), Greatest(i, j))]

UpperAndTransposeCover ==
    LET indices == triu_indices(NBasis)
        upper == {<<indices[1][k], indices[2][k]>> : k \in 1..Len(indices[1])}
    IN  /\ Len(indices[1]) = (NBasis * (NBasis + 1)) \div 2
        /\ upper = {x \in (0..(NBasis - 1)) \X (0..(NBasis - 1)) : x[1] <= x[2]}
        /\ upper \cup {<<x[2], x[1]>> : x \in upper}
             = (0..(NBasis - 1)) \X (0..(NBasis - 1))

C10_NoUndefinedEntry ==
    /\ Returned => (result.tag = "matrix" /\ NoUninit(result.m))
    /\ (Returned /\ numerical_called) =>
         /\ UpperAndTransposeCover
         /\ EachPairAndMirror(result.m,
              quad_vec(cross_product(basis, triu_indices(NBasis)),
                       a_of(basis), b_of(basis)))
    /\ (OptimizerReturned /\ MonomialConst) =>
         /\ UpperAndTransposeCover
         /\ NoUninit(optimized.m)
         /\ EachPairAndMirror(optimized.m,
              monomial_integral(basis,
                  monomial_evaluate_constant_linear_diff_op(basis, weights.w),
                  triu_indices(NBasis)))

C10_Witness ==
    /\ Returned /\ numerical_called /\ NBasis = 4
    /\ At(result.m, 3, 1) = At(result.m, 1, 3)
    /\ At(result.m, 3, 1) # At(result.m, 2, 1)
    /\ NoUninit(result.m)

(* C7: for a Fourier basis whose period is the length of the domain and    *)
(* constant weights the optimized matrix is zero off the diagonal, has     *)
(* w_0^2 at (0, 0), and for each frequency k with phase p = 2 pi k /       *)
(* period has A^2 + B^2 at (2k-1, 2k-1) and at (2k, 2k), A the sum over    *)
(* the even d and B over the odd d of s_d w_d p^d, s the cycle (+,+,-,-)   *)
(* for the sine and the same cycle shifted by one for the cosine.          *)
Cycle(d, shift) == IF (d + shift) % 4 < 2 THEN 1 ELSE -1

Phase(k) == QDiv(QMul(Q(2 * k), Pi), basis.period)

Term(k, d, shift) ==
    QMul(Q(Cycle(d, shift)), QMul(weights.w[d + 1], QPow(Phase(k), d)))

PartSum(k, parity, shift) ==
    QSum([d \in 1..Len(weights.w) |->
            IF (d - 1) % 2 = parity THEN Term(k, d - 1, shift) ELSE Zero], 1)

SumOfSquares(k, shift) ==
    QAdd(QMul(PartSum(k, 0, shift), PartSum(k, 0, shift)),
         QMul(PartSum(k, 1, shift), PartSum(k, 1, shift)))

FourierAligned ==
    /\ basis.kind = "Fourier" /\ weights.const
    /\ basis.period = QSub(b_of(basis), a_of(basis))

C7_FourierDiagonal ==
    (OptimizerReturned /\ FourierAligned) =>
        /\ optimized.tag = "matrix"
        /\ \A i \in 1..Rows(optimized.m) : \A j \in 1..Len(optimized.m[i]) :
             i # j => optimized.m[i][j] = Zero
        /\ At(optimized.m, 0, 0) = QMul(weights.w[1], weights.w[1])
        /\ \A k \in 1..((NBasis - 1) \div 2) :
             /\ At(optimized.m, 2 * k - 1, 2 * k - 1) = SumOfSquares(k, 0)
             /\ At(optimized.m, 2 * k, 2 * k) = SumOfSquares(k, 1)
             /\ SumOfSquares(k, 0) = SumOfSquares(k, 1)

C7_Witness ==
    /\ Returned /\ FourierAligned /\ NBasis = 5
    /\ weights.w = <<Q(1), Q(2), Q(1), Q(2)>>
    /\ At(result.m, 4, 4) = SumOfSquares(2, 1)
    /\ At(result.m, 4, 4) # At(result.m, 2, 2)
    /\ At(result.m, 4, 4) # Zero

(* C3: every path returns a square matrix of side n = n_basis for every    *)
(* n >= 1, the Fourier optimizer included.                                 *)
IsSquare(M, side) ==
    Len(M) = side /\ \A i \in 1..Len(M) : Len(M[i]) = side

C3_Original ==
    /\ OptimizerMatrix => IsSquare(optimized.m, NBasis)
    /\ Returned => IsSquare(result.m, NBasis)

(* C3, amended: the fallback, the Constant, Monomial and B-spline          *)
(* optimizers return a square matrix of side n; the Fourier optimizer      *)
(* returns a square matrix of side 2 ((n - 1) div 2) + 1, which is n       *)
(* exactly when n is odd.                                                  *)
FourierSide == 2 * ((NBasis - 1) \div 2) + 1

C3_SquareOfSide ==
    /\ (Returned /\ numerical_called) => IsSquare(result.m, NBasis)
    /\ (OptimizerMatrix /\ basis.kind # "Fourier")
           => IsSquare(optimized.m, NBasis)
    /\ (OptimizerMatrix /\ basis.kind = "Fourier") =>
           /\ IsSquare(optimized.m, FourierSide)
           /\ (FourierSide = NBasis) <=> (NBasis % 2 = 1)
    /\ pc = "loop" => IsSquare(penalty_matrix, NBasis)
    /\ Returned => IsSquare(result.m,
                       IF basis.kind = "Fourier" /\ ~numerical_called
                       THEN FourierSide ELSE NBasis)

C3_Witness ==
    /\ Returned /\ basis.kind = "Fourier" /\ ~numerical_called
    /\ NBasis = 4 /\ IsSquare(result.m, 3)

(* C2: for a B-spline basis with simple knots and constant weights with    *)
(* exactly one nonzero weight w_d, at a derivative order d below the       *)
(* spline order, the optimizer returns R_ij = w_d^2 times the sum over the *)
(* knot intervals of the integral of phi_i^(d) phi_j^(d), in the branch    *)
(* d = order - 1 and in the general branch, for every value of w_d.        *)
NonzeroOrders == {d \in 0..(Len(weights.w) - 1) : weights.w[d + 1] # Zero}

SingleDerivative ==
    /\ BSplineConst /\ ~ZeroLengthInterval
    /\ Cardinality(NonzeroOrders) = 1 /\ LowOrders = NonzeroOrders

(* entry c (from 1) of the product of the polynomials p and q *)
QProduct(p, q) ==
    [c \in 1..(Len(p) + Len(q) - 1) |->
       QSum([x \in 1..Len(p) |->
               IF c + 1 - x >= 1 /\ c + 1 - x <= Len(q)
               THEN QMul(p[x], q[c + 1 - x]) ELSE Zero], 1)]

(* the integral of p(u) for u from 0 to h *)
QIntegral(p, h) ==
    QSum([x \in 1..Len(p) |->
            QDiv(QMul(p[x], QPow(h, Len(p) - x + 1)), Q(Len(p) - x + 1))], 1)

(* the integral over the q-th knot interval of phi_i^(d) phi_j^(d) *)
DerivativeProduct(i, j, d, q) ==
    LET t == evaluation_knots(basis)
        di == QPolyDer(Piece(t, i, basis.order, q), d)
        dj == QPolyDer(Piece(t, j, basis.order, q), d)
    IN  IF Len(di) = 0 THEN Zero
        ELSE QIntegral(QProduct(di, dj), Q(t[q + 2] - t[q + 1]))

Gram(d) ==
    LET qs == Sorted(NonZeroIntervals(evaluation_knots(basis)))
    IN  [i \in 1..NBasis |-> [j \in 1..NBasis |->
          QSum([x \in 1..Len(qs) |->
                  DerivativeProduct(i - 1, j - 1, d, qs[x])], 1)]]

Scaled(M, c) == [i \in 1..Len(M) |-> [j \in 1..Len(M[i]) |-> QMul(c, M[i][j])]]

C2_WeightSquared ==
    (OptimizerReturned /\ SingleDerivative) =>
        optimized =
            Matrix(Scaled(Gram(TheOrder),
                          QMul(weights.w[TheOrder + 1], weights.w[TheOrder + 1])))

(* what the optimizer returns there: the integrals without the factor *)
C2_Unweighted ==
    (OptimizerReturned /\ SingleDerivative) =>
        optimized = Matrix(Gram(TheOrder))

C2_Reached ==
    /\ Returned /\ SingleDerivative /\ basis.order = 2
    /\ basis.knots = <<0, 1, 2>> /\ weights.w = <<Q(2)>>
    /\ At(result.m, 0, 0) = <<1, 3>>

(* C4: the returned matrix satisfies R[i][j] = R[j][i] exactly on every    *)
(* path: the fallback, the monomial, Fourier and constant paths and both   *)
(* B-spline branches, in the loop after every completed interval.          *)
C4_Original ==
    /\ OptimizerMatrix => Symmetric(optimized.m)
    /\ Returned => Symmetric(result.m)
    /\ pc = "loop" => Symmetric(penalty_matrix)

(* C4, amended: R[i][j] = R[j][i] exactly on the fallback, the monomial,   *)
(* Fourier and constant paths and in the general B-spline loop after every *)
(* completed interval, whatever the rounding; the branch d = order - 1     *)
(* returns the product C^T D C, which is symmetric when the arithmetic is  *)
(* exact and need not be when every operation is rounded.                  *)
C4_SymmetricByCopy ==
    /\ (OptimizerMatrix /\ ~TopDerivative) => Symmetric(optimized.m)
    /\ (OptimizerMatrix /\ TopDerivative /\ prec = 0) => Symmetric(optimized.m)
    /\ (Returned /\ ~(TopDerivative /\ prec # 0)) => Symmetric(result.m)
    /\ pc = "loop" => Symmetric(penalty_matrix)

C4_Witness ==
    /\ Returned /\ prec # 0 /\ BSplineConst /\ ~TopDerivative
    /\ ~numerical_called /\ interval = 2 /\ basis.order = 3
    /\ At(result.m, 0, 1) # Zero
    /\ At(result.m, 1, 0) = At(result.m, 0, 1)

C4_RoundedProduct ==
    /\ Returned /\ prec # 0 /\ TopDerivative
    /\ ~Symmetric(result.m)

=============================================================================
